---- MODULE Spec2Model ----
(***************************************************************************)
(* A model of the day-apportionment engine of gmob-stockincome:            *)
(* taxcalendar.py (Interval, TaxCalendar) and the multi-table reader of    *)
(* csvtable.py that feeds it.                                              *)
(*                                                                         *)
(* Dates are day ordinals: day 1 is January 1 of FirstYear, and            *)
(* consecutive integers are consecutive calendar days, so that             *)
(* (a - b).days is a - b.  Country labels are strings; Python's None is    *)
(* the reserved value None below.                                          *)
(***************************************************************************)
EXTENDS Integers, Sequences, FiniteSets, TLC

VARIABLES
    phase,          \* "new": before TaxCalendar(...); "failed": __init__ raised;
                    \* "ready": the object exists; "returned": a call has returned
    residence,      \* the residence list object (self.residence once constructed)
    businesstrips,  \* the business trip list object (self.businesstrips)
    years,          \* self.years
    today,          \* datetime.date.today().year
    error,          \* which raise statement ended __init__, or "none"
    call,           \* the last call made on the object and its arguments
    ret,            \* what that call returned or raised
    prev,           \* the first call made on the object and its result, when
                    \* the caller keeps them to compare later calls with
    reader,         \* the rows csv.reader has still to yield
    table,          \* ReadMultitableCSV's local variable table (a table name)
    tables          \* ReadMultitableCSV's dict of tables, by name

csv == <<reader, table, tables>>

vars == <<phase, residence, businesstrips, years, today, error, call, ret, prev,
          reader, table, tables>>

-----------------------------------------------------------------------------
(* Bounds of the model.                                                    *)

MaxDay == 3
MaxIntervals == 3
FirstYear == 2012
NumYears == 2
MaxYearIntervals == 2
MaxStrLen == 3
MaxRows == 4

-----------------------------------------------------------------------------
(* Python values.                                                          *)

None == "<None>"

\* A local variable that has not been assigned.
Unbound == "<unbound>"

EmptyDict == [k \in {} |-> 0]

\* defaultdict(int): d[k] += v creates the key with 0 first.
DictAdd(d, k, v) ==
    IF k \in DOMAIN d THEN [d EXCEPT ![k] = @ + v] ELSE d @@ (k :> v)

RECURSIVE SumOver(_, _)
SumOver(d, keys) ==
    IF keys = {} THEN 0
    ELSE LET k == CHOOSE x \in keys : TRUE
         IN  d[k] + SumOver(d, keys \ {k})

\* sum(days.values())
SumValues(d) == SumOver(d, DOMAIN d)

-----------------------------------------------------------------------------
(* The calendar of datetime: year lengths, January 1, .year.               *)

IsLeap(y) == y % 4 = 0 /\ (y % 100 # 0 \/ y % 400 = 0)

DaysInYear(y) == IF IsLeap(y) THEN 366 ELSE 365

RECURSIVE JanFirst(_)
JanFirst(y) == IF y <= FirstYear THEN 1 ELSE JanFirst(y - 1) + DaysInYear(y - 1)

DecLast(y) == JanFirst(y + 1) - 1

ModelYears == FirstYear .. (FirstYear + NumYears - 1)

YearOf(d) == CHOOSE y \in FirstYear .. (FirstYear + NumYears) :
                 JanFirst(y) <= d /\ d <= DecLast(y)

-----------------------------------------------------------------------------
(* class Interval                                                          *)

Interval(start, end, country) == [start |-> start, end |-> end, country |-> country]

NoOverlap == [some |-> FALSE, start |-> 0, end |-> 0]

Intersect(self, start, end) ==
    IF end >= self.start /\ start <= self.end
    THEN [some |-> TRUE,
          start |-> IF start >= self.start THEN start ELSE self.start,
          end |-> IF end <= self.end THEN end ELSE self.end]
    ELSE NoOverlap

IntervalLen(self) == (self.end - self.start) + 1

-----------------------------------------------------------------------------
(* TaxCalendar.__init__                                                    *)

\* list.sort(key=lambda interval: interval.start): a stable sort.
RECURSIVE InsertByStart(_, _)
InsertByStart(sorted, x) ==
    IF sorted = <<>> THEN <<x>>
    ELSE IF sorted[Len(sorted)].start <= x.start THEN Append(sorted, x)
    ELSE Append(InsertByStart(SubSeq(sorted, 1, Len(sorted) - 1), x),
                sorted[Len(sorted)])

RECURSIVE SortByStart(_)
SortByStart(s) ==
    IF s = <<>> THEN <<>>
    ELSE InsertByStart(SortByStart(SubSeq(s, 1, Len(s) - 1)), s[Len(s)])

\* CheckIntervals with the overlap test written >= instead of >.
CheckIntervals_NonStrict(intervals) ==
    LET short == {k \in 1..Len(intervals) : (intervals[k].end - intervals[k].start) + 1 < 1}
        over  == {k \in 1..(Len(intervals) - 1) :
                     intervals[k].end >= intervals[k + 1].start}
    IN  IF short # {}
        THEN LET k == CHOOSE k \in short : \A j \in short : k <= j
             IN  IF (intervals[k].end - intervals[k].start) + 1 < 0 THEN "NegativeLen"
                 ELSE "IntervalTooShort"
        ELSE IF over # {} THEN "Overlapping"
        ELSE "ok"

\* The nested CheckIntervals: "ok", or the raise that ends it.  len() of an
\* object whose __len__ is negative raises ValueError itself.
CheckIntervals(intervals) ==
    LET short == {k \in 1..Len(intervals) : IntervalLen(intervals[k]) < 1}
        over  == {k \in 1..(Len(intervals) - 1) :
                     intervals[k].end > intervals[k + 1].start}
    IN  IF short # {}
        THEN LET k == CHOOSE k \in short : \A j \in short : k <= j
             IN  IF IntervalLen(intervals[k]) < 0 THEN "NegativeLen"
                 ELSE "IntervalTooShort"
        ELSE IF over # {} THEN "Overlapping"
        ELSE "ok"

\* The contiguity check rejecting only overlaps, not gaps.
CheckContiguous_AllowsGap(res) ==
    IF \E k \in 1..(Len(res) - 1) : res[k + 1].start - res[k].end < 1
    THEN "NonContiguous" ELSE "ok"

\* "Check residence intervals are contiguous."
CheckContiguous(res) ==
    IF \E k \in 1..(Len(res) - 1) : res[k + 1].start - res[k].end # 1
    THEN "NonContiguous" ELSE "ok"

\* self.years = range(minyear, maxyear): the last year left out.
YearRange_Exclusive(res, thisyear) ==
    LET minyear == YearOf(res[1].start)
        lastyear == YearOf(res[Len(res)].end)
        maxyear == IF lastyear <= thisyear THEN lastyear ELSE thisyear
    IN  [k \in 1..(IF maxyear > minyear THEN maxyear - minyear ELSE 0)
            |-> minyear + k - 1]

\* self.years = range(minyear, maxyear + 1)
YearRange(res, thisyear) ==
    LET minyear == YearOf(res[1].start)
        lastyear == YearOf(res[Len(res)].end)
        maxyear == IF lastyear <= thisyear THEN lastyear ELSE thisyear
    IN  [k \in 1..(IF maxyear >= minyear THEN maxyear - minyear + 1 ELSE 0)
            |-> minyear + k - 1]

\* The whole constructor: the lists after it (sorted in place unless the
\* first check raised), the raise that ended it, and self.years.
TaxCalendarInit(res, trips, thisyear) ==
    IF res = <<>>
    THEN [error |-> "EmptyResidence", residence |-> res,
          businesstrips |-> trips, years |-> <<>>]
    ELSE LET sres == SortByStart(res)
             strips == SortByStart(trips)
             e1 == CheckIntervals(strips)
             e2 == CheckIntervals(sres)
             e3 == CheckContiguous(sres)
             e == IF e1 # "ok" THEN e1 ELSE IF e2 # "ok" THEN e2 ELSE e3
         IN  [error |-> IF e = "ok" THEN "none" ELSE e,
              residence |-> sres, businesstrips |-> strips,
              years |-> IF e = "ok" THEN YearRange(sres, thisyear) ELSE <<>>]

-----------------------------------------------------------------------------
(* TaxCalendar.FindLocations                                               *)

\* The inner loop without the debit of the residence country.
RECURSIVE TripLoop_NoDebit(_, _, _, _, _, _, _)
TripLoop_NoDebit(days, trips, j, rescountry, this_start, this_end, taxcountry) ==
    IF j > Len(trips) THEN days
    ELSE LET trip == trips[j]
             overlap == Intersect(trip, this_start, this_end)
             trip_days == (overlap.end - overlap.start) + 1
             next ==
                 IF ~overlap.some THEN days
                 ELSE IF trip.country = "JP" /\ taxcountry = "JP" THEN days
                 ELSE DictAdd(days, trip.country, trip_days)
         IN  TripLoop_NoDebit(next, trips, j + 1, rescountry, this_start,
                              this_end, taxcountry)

\* The inner loop counting a trip's days as end - start, without the + 1.
RECURSIVE TripLoop_OffByOne(_, _, _, _, _, _, _)
TripLoop_OffByOne(days, trips, j, rescountry, this_start, this_end, taxcountry) ==
    IF j > Len(trips) THEN days
    ELSE LET trip == trips[j]
             overlap == Intersect(trip, this_start, this_end)
             trip_days == overlap.end - overlap.start
             next ==
                 IF ~overlap.some THEN days
                 ELSE IF trip.country = "JP" /\ taxcountry = "JP" THEN days
                 ELSE DictAdd(DictAdd(days, trip.country, trip_days),
                              rescountry, 0 - trip_days)
         IN  TripLoop_OffByOne(next, trips, j + 1, rescountry, this_start,
                               this_end, taxcountry)

\* The inner loop without the treaty carve-out.
RECURSIVE TripLoop_NoCarveOut(_, _, _, _, _, _, _)
TripLoop_NoCarveOut(days, trips, j, rescountry, this_start, this_end, taxcountry) ==
    IF j > Len(trips) THEN days
    ELSE LET trip == trips[j]
             overlap == Intersect(trip, this_start, this_end)
             trip_days == (overlap.end - overlap.start) + 1
             next ==
                 IF ~overlap.some THEN days
                 ELSE DictAdd(DictAdd(days, trip.country, trip_days),
                              rescountry, 0 - trip_days)
         IN  TripLoop_NoCarveOut(next, trips, j + 1, rescountry, this_start,
                                 this_end, taxcountry)

\* The inner loop reading days[trip.country] of a trip the carve-out skips:
\* a defaultdict creates the key it is asked for.
RECURSIVE TripLoop_TouchesSkipped(_, _, _, _, _, _, _)
TripLoop_TouchesSkipped(days, trips, j, rescountry, this_start, this_end, taxcountry) ==
    IF j > Len(trips) THEN days
    ELSE LET trip == trips[j]
             overlap == Intersect(trip, this_start, this_end)
             trip_days == (overlap.end - overlap.start) + 1
             next ==
                 IF ~overlap.some THEN days
                 ELSE IF trip.country = "JP" /\ taxcountry = "JP"
                      THEN DictAdd(days, trip.country, 0)
                 ELSE DictAdd(DictAdd(days, trip.country, trip_days),
                              rescountry, 0 - trip_days)
         IN  TripLoop_TouchesSkipped(next, trips, j + 1, rescountry, this_start,
                                     this_end, taxcountry)

\* The inner loop counting a trip that misses the segment with its whole
\* length.
RECURSIVE TripLoop_CountsMissed(_, _, _, _, _, _, _)
TripLoop_CountsMissed(days, trips, j, rescountry, this_start, this_end, taxcountry) ==
    IF j > Len(trips) THEN days
    ELSE LET trip == trips[j]
             overlap == Intersect(trip, this_start, this_end)
             trip_days == IF overlap.some
                          THEN (overlap.end - overlap.start) + 1
                          ELSE IntervalLen(trip)
             next ==
                 IF trip.country = "JP" /\ taxcountry = "JP" THEN days
                 ELSE DictAdd(DictAdd(days, trip.country, trip_days),
                              rescountry, 0 - trip_days)
         IN  TripLoop_CountsMissed(next, trips, j + 1, rescountry, this_start,
                                   this_end, taxcountry)

\* The inner loop over self.businesstrips, from trip j on.
RECURSIVE TripLoop(_, _, _, _, _, _, _)
TripLoop(days, trips, j, rescountry, this_start, this_end, taxcountry) ==
    IF j > Len(trips) THEN days
    ELSE LET trip == trips[j]
             overlap == Intersect(trip, this_start, this_end)
             trip_days == (overlap.end - overlap.start) + 1
             next ==
                 IF ~overlap.some THEN days
                 ELSE IF trip.country = "JP" /\ taxcountry = "JP" THEN days
                 ELSE DictAdd(DictAdd(days, trip.country, trip_days),
                              rescountry, 0 - trip_days)
         IN  TripLoop(next, trips, j + 1, rescountry, this_start, this_end,
                      taxcountry)

\* The outer loop walking the trips whatever include_trips is.
RECURSIVE ResidenceLoop_AlwaysTrips(_, _, _, _, _, _, _, _)
ResidenceLoop_AlwaysTrips(st, res, trips, i, start, end, taxcountry, include_trips) ==
    IF i > Len(res) \/ st.failed THEN st
    ELSE LET r == res[i]
             overlap == Intersect(r, start, end)
             numdays == (overlap.end - overlap.start) + 1
             d1 == TripLoop(st.days, trips, 1, r.country, overlap.start,
                            overlap.end, taxcountry)
             next ==
                 IF ~overlap.some THEN st
                 ELSE IF numdays < 0
                      THEN [days |-> d1, bound |-> st.bound, failed |-> TRUE]
                      ELSE [days |-> DictAdd(d1, r.country, numdays),
                            bound |-> TRUE, failed |-> FALSE]
         IN  ResidenceLoop_AlwaysTrips(next, res, trips, i + 1, start, end,
                                       taxcountry, include_trips)

\* The outer loop matching each trip against the whole window instead of the
\* segment's part of it.
RECURSIVE ResidenceLoop_WholeWindow(_, _, _, _, _, _, _, _)
ResidenceLoop_WholeWindow(st, res, trips, i, start, end, taxcountry, include_trips) ==
    IF i > Len(res) \/ st.failed THEN st
    ELSE LET r == res[i]
             overlap == Intersect(r, start, end)
             numdays == (overlap.end - overlap.start) + 1
             d1 == IF include_trips
                   THEN TripLoop(st.days, trips, 1, r.country, start, end,
                                 taxcountry)
                   ELSE st.days
             next ==
                 IF ~overlap.some THEN st
                 ELSE IF numdays < 0
                      THEN [days |-> d1, bound |-> st.bound, failed |-> TRUE]
                      ELSE [days |-> DictAdd(d1, r.country, numdays),
                            bound |-> TRUE, failed |-> FALSE]
         IN  ResidenceLoop_WholeWindow(next, res, trips, i + 1, start, end,
                                       taxcountry, include_trips)

\* The outer loop over self.residence, from segment i on.  st carries the
\* dict, whether expected_total has been assigned, and a failed assert.
RECURSIVE ResidenceLoop(_, _, _, _, _, _, _, _)
ResidenceLoop(st, res, trips, i, start, end, taxcountry, include_trips) ==
    IF i > Len(res) \/ st.failed THEN st
    ELSE LET r == res[i]
             overlap == Intersect(r, start, end)
             numdays == (overlap.end - overlap.start) + 1
             d1 == IF include_trips
                   THEN TripLoop(st.days, trips, 1, r.country, overlap.start,
                                 overlap.end, taxcountry)
                   ELSE st.days
             next ==
                 IF ~overlap.some THEN st
                 ELSE IF numdays < 0
                      THEN [days |-> d1, bound |-> st.bound, failed |-> TRUE]
                      ELSE [days |-> DictAdd(d1, r.country, numdays),
                            bound |-> TRUE, failed |-> FALSE]
         IN  ResidenceLoop(next, res, trips, i + 1, start, end, taxcountry,
                           include_trips)

Returned(v) == [kind |-> "ok", val |-> v]
Raised(e) == [kind |-> e, val |-> EmptyDict]

\* FindLocations accumulating into a dict that outlives the call: the walk
\* starts from the mapping the remembered call left behind.
FindLocations_SharedAccumulator(res, trips, start, end, taxcountry, include_trips) ==
    LET shared == IF prev.call.op \in {"FindLocations", "FindLocationsForYear"}
                     /\ prev.ret.kind = "ok"
                  THEN prev.ret.val ELSE EmptyDict
        st == ResidenceLoop([days |-> shared, bound |-> FALSE, failed |-> FALSE],
                            res, trips, 1, start, end, taxcountry, include_trips)
        expected_total == (end - start) + 1
    IN  IF st.failed THEN Raised("AssertionError")
        ELSE IF ~st.bound THEN Raised("UnboundLocalError")
        ELSE IF SumValues(st.days) # expected_total THEN Raised("TotalsMismatch")
        ELSE Returned(st.days)

FindLocations(res, trips, start, end, taxcountry, include_trips) ==
    LET st == ResidenceLoop([days |-> EmptyDict, bound |-> FALSE, failed |-> FALSE],
                            res, trips, 1, start, end, taxcountry, include_trips)
        expected_total == (end - start) + 1
    IN  IF st.failed THEN Raised("AssertionError")
        ELSE IF ~st.bound THEN Raised("UnboundLocalError")
        ELSE IF SumValues(st.days) # expected_total THEN Raised("TotalsMismatch")
        ELSE Returned(st.days)

\* FindLocationsForYear passing include_trips=False.
FindLocationsForYear_NoTrips(res, trips, year) ==
    LET locations == FindLocations(res, trips, JanFirst(year), DecLast(year),
                                   None, FALSE)
    IN  IF locations.kind # "ok" THEN locations
        ELSE IF SumValues(locations.val) \notin {365, 366}
             THEN Raised("InvalidYearTotal")
        ELSE locations

FindLocationsForYear(res, trips, year) ==
    LET locations == FindLocations(res, trips, JanFirst(year), DecLast(year),
                                   None, TRUE)
    IN  IF locations.kind # "ok" THEN locations
        ELSE IF SumValues(locations.val) \notin {365, 366}
             THEN Raised("InvalidYearTotal")
        ELSE locations

-----------------------------------------------------------------------------
(* TaxCalendar.IsCountryOrStateOf                                          *)

StartsWith(s, prefix) ==
    Len(s) >= Len(prefix) /\ SubSeq(s, 1, Len(prefix)) = prefix

\* IsCountryOrStateOf testing startswith(country2), without the "_".
IsCountryOrStateOf_NoUnderscore(country1, country2) ==
    IF country1 = country2 THEN Returned(TRUE)
    ELSE IF country2 = None THEN Returned(FALSE)
    ELSE IF country1 = None THEN Raised("AttributeError")
    ELSE Returned(StartsWith(country1, country2))

\* None has no startswith: the call raises AttributeError.
IsCountryOrStateOf(country1, country2) ==
    IF country1 = country2 THEN Returned(TRUE)
    ELSE IF country2 = None THEN Returned(FALSE)
    ELSE IF country1 = None THEN Raised("AttributeError")
    ELSE Returned(StartsWith(country1, country2 \o "_"))

-----------------------------------------------------------------------------
(* Inputs.                                                                 *)

Days == 1..MaxDay

ResCountries == {"JP", "US"}
TripCountries == {"JP", "FR"}
TaxCountries == {"JP", "US"}

Intervals(dates, countries) ==
    {Interval(s, e, c) : s \in dates, e \in dates, c \in countries}

ProperIntervals(dates, countries) ==
    {i \in Intervals(dates, countries) : i.start <= i.end}

Lists(S, n) == UNION {[1..k -> S] : k \in 0..n}

\* The lists over S of length at most n whose starts never decrease.
RECURSIVE OrderedLists(_, _)
OrderedLists(S, n) ==
    IF n = 0 THEN {<<>>}
    ELSE LET shorter == OrderedLists(S, n - 1)
             longest == {l \in shorter : Len(l) = n - 1}
         IN  shorter \cup
             UNION {{Append(l, x) :
                        x \in {y \in S : l = <<>> \/ l[Len(l)].start <= y.start}} :
                    l \in longest}

\* The dates of the year model: the first day, a day in the middle and the
\* last day of each year.
MidYear(y) == JanFirst(y) + 181

YearDates == UNION {{JanFirst(y), MidYear(y), DecLast(y)} : y \in ModelYears}

RECURSIVE Strings(_, _)
Strings(alphabet, n) ==
    IF n = 0 THEN {""}
    ELSE LET shorter == Strings(alphabet, n - 1)
         IN  shorter \cup {s \o c : s \in shorter, c \in alphabet}

Labels == Strings({"U", "S", "_"}, MaxStrLen)
              \cup {"US", "JP", "US_CA", "JP_13", None}

NoCall == [op |-> "none"]
NoRet == [kind |-> "none", val |-> EmptyDict]
NoPrev == [call |-> NoCall, ret |-> NoRet]

-----------------------------------------------------------------------------
(* The state machine.                                                      *)

InitWith(res, trips, thisyear) ==
    /\ phase = "new"
    /\ residence = res
    /\ businesstrips = trips
    /\ today = thisyear
    /\ years = <<>>
    /\ error = "none"
    /\ call = NoCall
    /\ ret = NoRet
    /\ prev = NoPrev
    /\ reader = <<>>
    /\ table = Unbound
    /\ tables = EmptyDict

\* Lists of proper intervals, given in start order.
Init ==
    \E res \in OrderedLists(ProperIntervals(Days, ResCountries), MaxIntervals) :
      \E trips \in OrderedLists(ProperIntervals(Days, TripCountries),
                                MaxIntervals - Len(res)) :
        InitWith(res, trips, FirstYear)

\* Arbitrary lists: any order, any endpoints.
InitNew ==
    \E res \in Lists(Intervals(Days, {"JP"}), MaxIntervals) :
      \E trips \in Lists(Intervals(Days, {"FR"}), MaxIntervals - Len(res)) :
        InitWith(res, trips, FirstYear)

\* Ordered lists of proper intervals over whole and half years.
InitYear ==
    \E res \in OrderedLists(ProperIntervals(YearDates, {"JP"}), MaxYearIntervals) :
      \E trips \in OrderedLists(ProperIntervals(YearDates, {"FR"}),
                                MaxYearIntervals - Len(res)) :
        \E thisyear \in {FirstYear - 1, FirstYear, FirstYear + NumYears - 1} :
          InitWith(res, trips, thisyear)

InitStatic == InitWith(<<>>, <<>>, FirstYear)

\* Ordered lists of proper intervals: residence in the US, trips to France.
InitAgain ==
    \E res \in OrderedLists(ProperIntervals(Days, {"US"}), MaxIntervals) :
      \E trips \in OrderedLists(ProperIntervals(Days, {"FR"}),
                                MaxIntervals - Len(res)) :
        InitWith(res, trips, FirstYear)

\* TaxCalendar(residence, businesstrips)
New ==
    /\ phase = "new"
    /\ LET r == TaxCalendarInit(residence, businesstrips, today)
       IN  /\ residence' = r.residence
           /\ businesstrips' = r.businesstrips
           /\ years' = r.years
           /\ error' = r.error
           /\ phase' = IF r.error = "none" THEN "ready" ELSE "failed"
    /\ UNCHANGED <<today, call, ret, prev, csv>>

CallFindLocations(dates) ==
    /\ phase = "ready"
    /\ \E start \in dates, end \in dates, taxcountry \in TaxCountries,
          include_trips \in BOOLEAN :
         /\ call' = [op |-> "FindLocations", start |-> start, end |-> end,
                     taxcountry |-> taxcountry, include_trips |-> include_trips]
         /\ ret' = FindLocations(residence, businesstrips, start, end,
                                 taxcountry, include_trips)
    /\ phase' = "returned"
    /\ UNCHANGED <<residence, businesstrips, years, today, error, prev, csv>>

CallFindLocationsForYear ==
    /\ phase = "ready"
    /\ \E year \in ModelYears :
         /\ call' = [op |-> "FindLocationsForYear", year |-> year]
         /\ ret' = FindLocationsForYear(residence, businesstrips, year)
    /\ phase' = "returned"
    /\ UNCHANGED <<residence, businesstrips, years, today, error, prev, csv>>

CallGetYears ==
    /\ phase = "ready"
    /\ call' = [op |-> "GetYears"]
    /\ ret' = Returned(years)
    /\ phase' = "returned"
    /\ UNCHANGED <<residence, businesstrips, years, today, error, prev, csv>>

\* A static method: callable without an object.
CallIsCountryOrStateOf ==
    /\ phase = "new"
    /\ \E country1 \in Labels, country2 \in Labels :
         /\ call' = [op |-> "IsCountryOrStateOf", country1 |-> country1,
                     country2 |-> country2]
         /\ ret' = IsCountryOrStateOf(country1, country2)
    /\ phase' = "static"
    /\ UNCHANGED <<residence, businesstrips, years, today, error, prev, csv>>

\* The caller takes the result; the object is ready for the next call.
Return ==
    /\ phase \in {"returned", "static"}
    /\ phase' = IF phase = "returned" THEN "ready" ELSE "new"
    /\ call' = NoCall
    /\ ret' = NoRet
    /\ UNCHANGED <<residence, businesstrips, years, today, error, prev, csv>>

\* FindLocations for one taxcountry.
CallFindLocationsFor(dates, taxcountry) ==
    /\ phase = "ready"
    /\ \E start \in dates, end \in dates, include_trips \in BOOLEAN :
         /\ call' = [op |-> "FindLocations", start |-> start, end |-> end,
                     taxcountry |-> taxcountry, include_trips |-> include_trips]
         /\ ret' = FindLocations(residence, businesstrips, start, end,
                                 taxcountry, include_trips)
    /\ phase' = "returned"
    /\ UNCHANGED <<residence, businesstrips, years, today, error, prev, csv>>

\* The caller takes the result and keeps the first one it got, with the
\* call that gave it.
ReturnKeep ==
    /\ phase = "returned"
    /\ phase' = "ready"
    /\ prev' = IF prev = NoPrev THEN [call |-> call, ret |-> ret] ELSE prev
    /\ call' = NoCall
    /\ ret' = NoRet
    /\ UNCHANGED <<residence, businesstrips, years, today, error, csv>>

Next ==
    \/ New
    \/ CallFindLocations(Days)
    \/ CallFindLocationsForYear
    \/ CallGetYears
    \/ Return

NextYear ==
    \/ New
    \/ CallFindLocationsForYear
    \/ CallGetYears
    \/ Return

NextStatic ==
    \/ CallIsCountryOrStateOf
    \/ Return

Spec == Init /\ [][Next]_vars

SpecNew == InitNew /\ [][Next]_vars

SpecYear == InitYear /\ [][NextYear]_vars

SpecStatic == InitStatic /\ [][NextStatic]_vars

NextAgain ==
    \/ New
    \/ CallFindLocationsFor(Days, "US")
    \/ CallFindLocationsForYear
    \/ CallGetYears
    \/ ReturnKeep

SpecAgain == InitAgain /\ [][NextAgain]_vars

-----------------------------------------------------------------------------
(* What the claims speak of, counted day by day.                           *)

\* A FindLocations call has come back (returned or raised).
Found == phase = "returned" /\ call.op = "FindLocations"

FoundOk == Found /\ ret.kind = "ok"

Window == call.start .. call.end

\* The residence segments that hold day d.
SegmentsAt(d) == {k \in 1..Len(residence) :
                     residence[k].start <= d /\ d <= residence[k].end}

Covered(d) == SegmentsAt(d) # {}

WindowCovered == \A d \in Window : Covered(d)

\* The trips (by index) that hold day d.
TripsAt(d) == {j \in 1..Len(businesstrips) :
                  businesstrips[j].start <= d /\ d <= businesstrips[j].end}

Suppressed(j, taxcountry) ==
    businesstrips[j].country = "JP" /\ taxcountry = "JP"

\* d[k], or 0 for a key the mapping does not hold.
Get(d, k) == IF k \in DOMAIN d THEN d[k] ELSE 0

\* The days of the window spent resident in country c.
ResidentDays(c) ==
    Cardinality({d \in Window : \E k \in SegmentsAt(d) : residence[k].country = c})

\* The (day, trip) pairs of the window that count under taxcountry: the day
\* is covered by the residence timeline and lies in the trip.
TripDayPairs(taxcountry) ==
    {<<d, j>> \in Window \X (1..Len(businesstrips)) :
        Covered(d) /\ j \in TripsAt(d) /\ ~Suppressed(j, taxcountry)}

\* Days credited to c as a destination, and debited from c as a residence.
Credited(c, taxcountry) ==
    Cardinality({p \in TripDayPairs(taxcountry) : businesstrips[p[2]].country = c})

Debited(c, taxcountry) ==
    Cardinality({p \in TripDayPairs(taxcountry) :
                    \E k \in SegmentsAt(p[1]) : residence[k].country = c})

AllCountries == ResCountries \cup TripCountries

-----------------------------------------------------------------------------
\* C1: on a constructed calendar, a FindLocations call for a window
\* start <= end whose every day lies in the residence timeline returns a
\* mapping, whatever taxcountry and include_trips are, and the values of the
\* mapping sum to (end - start) + 1.
C1_TotalDays ==
    (Found /\ call.start <= call.end /\ WindowCovered)
        => /\ ret.kind = "ok"
           /\ SumValues(ret.val) = (call.end - call.start) + 1

\* A covered window over two residence segments, with a counted trip in it.
C1_Witness ==
    /\ FoundOk /\ call.include_trips /\ WindowCovered
    /\ call.start < call.end
    /\ Cardinality(UNION {SegmentsAt(d) : d \in Window}) >= 2
    /\ TripDayPairs(call.taxcountry) # {}

\* C2: a FindLocations call with include_trips=true never returns a mapping
\* with a negative value: it raises instead.
C2_NoNegativeBucket ==
    (FoundOk /\ call.include_trips) => \A c \in DOMAIN ret.val : ret.val[c] >= 0

\* The residence segments and the trips that reach into the window.
SegmentsInWindow == UNION {SegmentsAt(d) : d \in Window}

TripsInWindow == UNION {TripsAt(d) : d \in Window}

\* No day of the window lies in two trips.
TripsDayDisjoint == \A d \in Window : Cardinality(TripsAt(d)) <= 1

\* The days of the window spent on a trip, and on a trip to dest.
TripDays == Cardinality({d \in Window : TripsAt(d) # {}})

TripDaysTo(dest) ==
    Cardinality({d \in Window : \E j \in TripsAt(d) : businesstrips[j].country = dest})

\* C5: a FindLocations call with include_trips=true that returns has, for
\* every residence segment in the window and every trip day of that segment
\* not suppressed by the carve-out, credited the day to the trip's
\* destination and debited it from the segment's country: each bucket is the
\* resident days of its country, plus the days credited to it, minus the
\* days debited from it.  With a single residence segment of country c over
\* the window and day-disjoint trips to other countries, none suppressed,
\* bucket[c] is the window days minus the trip days and bucket[dest] the
\* trip days to dest.
C5_TripTransfer ==
    (FoundOk /\ call.include_trips) =>
        /\ \A c \in AllCountries :
              Get(ret.val, c) = (ResidentDays(c) + Credited(c, call.taxcountry))
                                    - Debited(c, call.taxcountry)
        /\ DOMAIN ret.val \subseteq AllCountries
        /\ (/\ Cardinality(SegmentsInWindow) = 1
            /\ TripsDayDisjoint
            /\ \A j \in TripsInWindow :
                  /\ ~Suppressed(j, call.taxcountry)
                  /\ \A k \in SegmentsInWindow :
                        businesstrips[j].country # residence[k].country)
              => \A k \in SegmentsInWindow :
                    /\ ret.val[residence[k].country]
                           = ((call.end - call.start) + 1) - TripDays
                    /\ \A dest \in AllCountries \ {residence[k].country} :
                          Get(ret.val, dest) = TripDaysTo(dest)

\* One residence segment over a three-day window with trips to two other
\* countries: one day is left to the residence country.
C5_Witness ==
    /\ FoundOk /\ call.include_trips
    /\ call.end - call.start = 2
    /\ Cardinality(SegmentsInWindow) = 1
    /\ TripsDayDisjoint
    /\ {businesstrips[j].country : j \in TripsInWindow} = {"JP", "FR"}
    /\ \A k \in SegmentsInWindow : residence[k].country = "US"
    /\ ret.val = [US |-> 1, JP |-> 1, FR |-> 1]

\* C6: a FindLocations call with include_trips=false has the outcome it has
\* on the same calendar with an empty trip list; a mapping it returns holds,
\* for each country, the window days spent in residence segments of that
\* country, and its keys are countries of residence segments in the window,
\* never a label that is only a trip destination.
C6_TripsIgnored ==
    (Found /\ ~call.include_trips) =>
        /\ ret = FindLocations(residence, <<>>, call.start, call.end,
                               call.taxcountry, FALSE)
        /\ ret = FindLocations(residence, <<>>, call.start, call.end,
                               call.taxcountry, TRUE)
        /\ ret.kind = "ok" =>
              /\ \A c \in AllCountries : Get(ret.val, c) = ResidentDays(c)
              /\ DOMAIN ret.val \subseteq {residence[k].country : k \in 1..Len(residence)}
              /\ call.start <= call.end =>
                    DOMAIN ret.val = {residence[k].country : k \in SegmentsInWindow}

\* A trip to FR lies in the window of a call that ignores it.
C6_Witness ==
    /\ FoundOk /\ ~call.include_trips
    /\ \E j \in TripsInWindow : businesstrips[j].country = "FR"
    /\ "FR" \notin DOMAIN ret.val
    /\ Cardinality(DOMAIN ret.val) = 2

\* The list with the elements at the indices in drop left out.
RECURSIVE Without(_, _)
Without(s, drop) ==
    IF s = <<>> THEN <<>>
    ELSE LET front == Without(SubSeq(s, 1, Len(s) - 1), drop)
         IN  IF Len(s) \in drop THEN front ELSE Append(front, s[Len(s)])

JPTrips == {j \in 1..Len(businesstrips) : businesstrips[j].country = "JP"}

\* The non-JP residence segments that trip j crosses inside the window.
ForeignSegments(j) ==
    {k \in 1..Len(residence) :
        /\ residence[k].country # "JP"
        /\ \E d \in Window : k \in SegmentsAt(d) /\ j \in TripsAt(d)}

\* C7: with taxcountry "JP" and include_trips=true a FindLocations call has
\* the outcome it has on the calendar without its trips to "JP".  With
\* taxcountry "US" a trip to "JP" that crosses a non-JP residence segment in
\* the window changes the mapping returned: against the calendar without
\* that trip, the JP bucket is larger and the bucket of that segment's
\* country is smaller.
C7_CarveOut ==
    /\ (Found /\ call.include_trips /\ call.taxcountry = "JP") =>
          ret = FindLocations(residence, Without(businesstrips, JPTrips),
                              call.start, call.end, "JP", TRUE)
    /\ (FoundOk /\ call.include_trips /\ call.taxcountry = "US") =>
          \A j \in JPTrips : \A k \in ForeignSegments(j) :
              LET without == FindLocations(residence, Without(businesstrips, {j}),
                                           call.start, call.end, "US", TRUE)
              IN  /\ without.kind = "ok"
                  /\ Get(ret.val, "JP") > Get(without.val, "JP")
                  /\ Get(ret.val, residence[k].country)
                         < Get(without.val, residence[k].country)

\* A trip to JP from a US residence is neutralised under taxcountry "JP".
C7_Witness ==
    /\ FoundOk /\ call.include_trips /\ call.taxcountry = "JP"
    /\ \E j \in JPTrips : ForeignSegments(j) # {}
    /\ "JP" \notin DOMAIN ret.val

\* C9: a FindLocations call for a window start <= end holding a day outside
\* the residence timeline raises the totals-mismatch error.
C9_UncoveredMismatch ==
    (Found /\ call.start <= call.end /\ ~WindowCovered)
        => ret.kind = "TotalsMismatch"

\* A FindLocationsForYear call has come back.
FoundYear == phase = "returned" /\ call.op = "FindLocationsForYear"

\* The trips that reach into the year.
TripsInYear(year) ==
    {j \in 1..Len(businesstrips) :
        businesstrips[j].start <= DecLast(year) /\ businesstrips[j].end >= JanFirst(year)}

\* C8: a mapping returned by FindLocationsForYear(year) is the result of
\* FindLocations for January 1 to December 31 of the year with trips
\* included (the destination of every trip in the year is a key), and its
\* values sum to 365 or 366, the number of days of that year; the
\* invalid-year-total error is raised only when that sum is neither.
C8_YearTotal ==
    FoundYear =>
        LET whole == FindLocations(residence, businesstrips, JanFirst(call.year),
                                   DecLast(call.year), None, TRUE)
        IN  /\ ret.kind = "ok" =>
                  /\ ret = whole
                  /\ SumValues(ret.val) \in {365, 366}
                  /\ SumValues(ret.val) = DaysInYear(call.year)
                  /\ \A j \in TripsInYear(call.year) :
                        businesstrips[j].country \in DOMAIN ret.val
            /\ ret.kind = "InvalidYearTotal" =>
                  whole.kind = "ok" /\ SumValues(whole.val) \notin {365, 366}

\* A whole year of residence with a trip in it.
C8_Witness ==
    /\ FoundYear /\ ret.kind = "ok"
    /\ TripsInYear(call.year) # {}
    /\ DOMAIN ret.val = {"JP", "FR"}
    /\ ret.val["JP"] + ret.val["FR"] = DaysInYear(call.year)

\* An IsCountryOrStateOf call has come back.
Answered == phase = "static" /\ call.op = "IsCountryOrStateOf"

\* candidate is parent, then "_", then anything.
BeginsWithParent(candidate, parent) ==
    /\ candidate # None /\ parent # None
    /\ Len(candidate) > Len(parent)
    /\ \A i \in 1..Len(parent) : SubSeq(candidate, i, i) = SubSeq(parent, i, i)
    /\ SubSeq(candidate, Len(parent) + 1, Len(parent) + 1) = "_"

AnsweredTrue == ret.kind = "ok" /\ ret.val = TRUE
AnsweredFalse == ret.kind = "ok" /\ ret.val = FALSE

\* C10: IsCountryOrStateOf(candidate, parent) returns true exactly when
\* candidate equals parent or begins with parent followed by "_":
\* ("US_CA", "US") and ("US", "US") give true, ("US_CA", "JP") and
\* ("US", "US_CA") give false, and with parent None it returns true only
\* for candidate None.
C10_CountryOrState ==
    Answered =>
        /\ AnsweredTrue <=> (\/ call.country1 = call.country2
                             \/ BeginsWithParent(call.country1, call.country2))
        /\ (call.country1 = "US_CA" /\ call.country2 = "US") => AnsweredTrue
        /\ (call.country1 = "US" /\ call.country2 = "US") => AnsweredTrue
        /\ (call.country1 = "US_CA" /\ call.country2 = "JP") => AnsweredFalse
        /\ (call.country1 = "US" /\ call.country2 = "US_CA") => AnsweredFalse
        /\ call.country2 = None =>
              /\ ret.kind = "ok"
              /\ ret.val <=> (call.country1 = None)

\* A state of the US rolls up into the US.
C10_Witness ==
    /\ Answered /\ AnsweredTrue
    /\ call.country1 = "US_CA" /\ call.country2 = "US"

-----------------------------------------------------------------------------
(* Construction, stated on the lists as the caller passes them.            *)

\* Where a stable sort by start puts s[i] relative to s[j].
Before(s, i, j) ==
    s[i].start < s[j].start \/ (s[i].start = s[j].start /\ i < j)

\* s[i] and s[j] are neighbours, in this order, once s is sorted.
Adjacent(s, i, j) ==
    /\ Before(s, i, j)
    /\ ~\E k \in 1..Len(s) : Before(s, i, k) /\ Before(s, k, j)

AdjacentPairs(s) == {p \in (1..Len(s)) \X (1..Len(s)) : Adjacent(s, p[1], p[2])}

AllProper(s) == \A k \in 1..Len(s) : s[k].end >= s[k].start

NoOverlaps(s) == \A p \in AdjacentPairs(s) : s[p[1]].end <= s[p[2]].start

Contiguous(s) == \A p \in AdjacentPairs(s) : s[p[2]].start = s[p[1]].end + 1

\* Some neighbours leave at least one day between them.
HasGap(s) == \E p \in AdjacentPairs(s) : s[p[2]].start - s[p[1]].end >= 2

\* Some neighbours share their boundary day.
HasSameDayBoundary(s) == \E p \in AdjacentPairs(s) : s[p[2]].start = s[p[1]].end

\* Every neighbouring pair is contiguous or shares its boundary day.
ContiguousButSameDay(s) ==
    \A p \in AdjacentPairs(s) : s[p[2]].start - s[p[1]].end \in {0, 1}

Acceptable(res, trips) ==
    /\ res # <<>>
    /\ AllProper(res) /\ AllProper(trips)
    /\ NoOverlaps(trips)
    /\ Contiguous(res)

\* The construction has run (the lists are sorted unless the list was empty).
Constructed == phase # "new" /\ call.op # "IsCountryOrStateOf"

\* C3 as stated: a residence list with a same-day boundary, every other
\* check satisfied, constructs without error.
C3_SameDayAccepted ==
    (/\ Constructed /\ residence # <<>>
     /\ HasSameDayBoundary(residence) /\ ContiguousButSameDay(residence)
     /\ AllProper(residence) /\ AllProper(businesstrips)
     /\ NoOverlaps(businesstrips))
        => error = "none"

\* C3 as amended: such a list passes the overlap check (a shared boundary
\* day is no overlap) and is then rejected by the contiguity check:
\* construction raises "Residency intervals must be contiguous".
C3_SameDayNotContiguous ==
    (/\ Constructed /\ residence # <<>>
     /\ HasSameDayBoundary(residence) /\ ContiguousButSameDay(residence)
     /\ AllProper(residence) /\ AllProper(businesstrips)
     /\ NoOverlaps(businesstrips))
        => error = "NonContiguous" /\ phase = "failed"

\* Segment A ends on day 2 and segment B starts on day 2.
C3_Witness ==
    /\ phase = "failed" /\ error = "NonContiguous"
    /\ Len(residence) = 2
    /\ residence[1].start < residence[1].end
    /\ residence[1].end = residence[2].start
    /\ residence[2].start < residence[2].end
    /\ businesstrips # <<>> /\ AllProper(businesstrips) /\ NoOverlaps(businesstrips)

\* C4: construction succeeds exactly when, in the order a stable sort by
\* start gives each list whatever order it was passed in, the residence list
\* is non-empty, every interval of both lists has end >= start, neighbouring
\* trips have this.end <= next.start and neighbouring residence segments
\* have next.start one day after this.end.  A gap of one or more days
\* between neighbouring residence segments makes construction fail, and
\* with the contiguity error whenever the length and overlap checks, which
\* run first, pass.
C4_Construction ==
    [][New =>
        /\ (error' = "none") <=> Acceptable(residence, businesstrips)
        /\ (phase' = "ready") <=> Acceptable(residence, businesstrips)
        /\ HasGap(residence) =>
              /\ error' # "none"
              /\ (/\ AllProper(residence) /\ AllProper(businesstrips)
                  /\ NoOverlaps(businesstrips) /\ NoOverlaps(residence))
                    => error' = "NonContiguous"]_vars

\* A calendar of two residence segments and a trip has been constructed.
C4_Witness ==
    /\ phase = "ready" /\ error = "none"
    /\ Len(residence) = 2 /\ Len(businesstrips) = 1

-----------------------------------------------------------------------------
\* C11: FindLocations and FindLocationsForYear only read the calendar.  No
\* call, returning or raising, changes the residence list, the trip list or
\* the year list, and a call with the arguments of the first call made on
\* the object, whatever calls came between, has the outcome that first call
\* had: no call sees what an earlier one accumulated.
C11_ReadOnly ==
    [][/\ phase \in {"ready", "returned"} =>
             UNCHANGED <<residence, businesstrips, years>>
       /\ (phase' = "returned" /\ call' = prev.call) => ret' = prev.ret]_vars

\* The first call, one that counts a trip, is made again.
C11_Witness ==
    /\ phase = "returned" /\ call = prev.call
    /\ call.op = "FindLocations" /\ call.include_trips
    /\ ret.kind = "ok" /\ ret = prev.ret
    /\ DOMAIN ret.val = {"US", "FR"}

-----------------------------------------------------------------------------
\* The residence segments that meet the window [start, end], and for such a
\* segment the trips that meet its part of the window, as intervals.
SegmentsMeeting ==
    {k \in 1..Len(residence) :
        residence[k].start <= call.end /\ call.start <= residence[k].end}

TripsMeeting(k) ==
    {j \in 1..Len(businesstrips) :
        /\ businesstrips[j].start <= call.end /\ call.start <= businesstrips[j].end
        /\ businesstrips[j].start <= residence[k].end
        /\ residence[k].start <= businesstrips[j].end}

\* The trips that count in the call: none without include_trips, none that
\* the carve-out suppresses.
CountedTrips(k) ==
    IF call.include_trips
    THEN {j \in TripsMeeting(k) : ~Suppressed(j, call.taxcountry)}
    ELSE {}

\* C12: every key of a mapping FindLocations returns is the country of a
\* residence segment meeting the window or the destination of a trip, not
\* suppressed by the carve-out, that meets such a segment's part of the
\* window, and with include_trips=false no trip gives a key.  For a window
\* start <= end the keys are exactly these labels, and each has received a
\* contribution of at least one day: a day of residence or a day of trip.
C12_Keys ==
    FoundOk =>
        /\ DOMAIN ret.val \subseteq
               {residence[k].country : k \in SegmentsMeeting}
                   \cup UNION {{businesstrips[j].country : j \in CountedTrips(k)} :
                                  k \in SegmentsMeeting}
        /\ ~call.include_trips =>
               DOMAIN ret.val \subseteq {residence[k].country : k \in SegmentsMeeting}
        /\ call.start <= call.end =>
              /\ DOMAIN ret.val =
                     {residence[k].country : k \in SegmentsInWindow}
                         \cup (IF call.include_trips
                                THEN {businesstrips[p[2]].country :
                                         p \in TripDayPairs(call.taxcountry)}
                                ELSE {})
              /\ \A c \in DOMAIN ret.val :
                     ResidentDays(c) > 0
                         \/ (call.include_trips /\ Credited(c, call.taxcountry) > 0)

\* JP is no key although a JP residence segment lies outside the window and
\* a trip to JP inside it is suppressed.
C12_Witness ==
    /\ FoundOk /\ call.include_trips /\ call.taxcountry = "JP"
    /\ call.start <= call.end
    /\ \E j \in TripsInWindow : businesstrips[j].country = "JP"
    /\ \E k \in 1..Len(residence) :
          residence[k].country = "JP" /\ k \notin SegmentsInWindow
    /\ "JP" \notin DOMAIN ret.val

-----------------------------------------------------------------------------
\* A GetYears call has come back.
GotYears == phase = "returned" /\ call.op = "GetYears"

\* The year of the earliest start and of the latest end of the residence
\* timeline.
EarliestYear ==
    CHOOSE y \in FirstYear .. (FirstYear + NumYears) :
        \E k \in 1..Len(residence) :
            /\ \A i \in 1..Len(residence) : residence[k].start <= residence[i].start
            /\ JanFirst(y) <= residence[k].start /\ residence[k].start < JanFirst(y + 1)

LatestYear ==
    CHOOSE y \in FirstYear .. (FirstYear + NumYears) :
        \E k \in 1..Len(residence) :
            /\ \A i \in 1..Len(residence) : residence[k].end >= residence[i].end
            /\ JanFirst(y) <= residence[k].end /\ residence[k].end < JanFirst(y + 1)

\* C13: GetYears() returns the years from the start year of the earliest
\* residence segment to the lesser of the end year of the latest segment and
\* the current year, both included, ascending and without gaps; it returns
\* the empty sequence when the earliest start year is after the current year.
C13_Years ==
    GotYears =>
        LET upto == IF LatestYear <= today THEN LatestYear ELSE today
        IN  /\ ret.kind = "ok"
            /\ {ret.val[i] : i \in 1..Len(ret.val)} = EarliestYear .. upto
            /\ \A i \in 1..(Len(ret.val) - 1) : ret.val[i + 1] = ret.val[i] + 1
            /\ EarliestYear > today => ret.val = <<>>
            /\ ret.val = years

\* The timeline runs into a later year than the current one.
C13_Witness ==
    /\ GotYears
    /\ ret.val # <<>>
    /\ LatestYear > today
    /\ ret.val[Len(ret.val)] = today

\* The timeline starts after the current year.
C13_WitnessEmpty == GotYears /\ EarliestYear > today /\ ret.val = <<>>

-----------------------------------------------------------------------------
\* The days of trip j, and those of them spent in residence segments of
\* country c.
DaysOfTrip(j) == businesstrips[j].start .. businesstrips[j].end

TripDaysIn(j, c) ==
    Cardinality({d \in DaysOfTrip(j) :
                    \E k \in SegmentsAt(d) : residence[k].country = c})

\* Trip j holds the last day of one residence segment and the first day of
\* the next, and the two segments have different countries.
SpansBoundary(j) ==
    \E k \in 1..(Len(residence) - 1) :
        /\ residence[k].country # residence[k + 1].country
        /\ residence[k].end \in DaysOfTrip(j)
        /\ residence[k + 1].start \in DaysOfTrip(j)

\* The call is about a calendar with one trip, which counts under the
\* call's taxcountry, spans a boundary and lies inside the window.
SpanningTripCall ==
    /\ FoundOk /\ call.include_trips
    /\ Len(businesstrips) = 1
    /\ ~Suppressed(1, call.taxcountry)
    /\ SpansBoundary(1)
    /\ DaysOfTrip(1) \subseteq Window

\* C14: when the only business trip counts under taxcountry, spans the
\* boundary of two adjacent residence segments of different countries and
\* lies inside the window, a FindLocations call with include_trips=true that
\* returns has credited the destination the length of the trip and debited
\* each residence country the trip days inside its own segments: every
\* bucket is the resident days of its country, less its trip days, plus the
\* trip length for the destination; the trip days over the countries add up
\* to the trip length, and the buckets to the window length.
C14_SpanningTrip ==
    SpanningTripCall =>
        LET trip == businesstrips[1]
            length == (trip.end - trip.start) + 1
            debits == [c \in AllCountries |-> TripDaysIn(1, c)]
        IN  /\ \A c \in AllCountries :
                  Get(ret.val, c) =
                      (ResidentDays(c) - debits[c])
                          + (IF c = trip.country THEN length ELSE 0)
            /\ SumValues(debits) = length
            /\ SumValues(ret.val) = (call.end - call.start) + 1

\* A two-day trip to FR over the boundary of a US and a JP segment, one day
\* in each, in a three-day window.
C14_Witness ==
    /\ SpanningTripCall
    /\ businesstrips[1].country = "FR"
    /\ TripDaysIn(1, "US") = 1 /\ TripDaysIn(1, "JP") = 1
    /\ call.end - call.start = 2
    /\ Get(ret.val, "FR") = 2
    /\ Get(ret.val, "US") + Get(ret.val, "JP") = 1

-----------------------------------------------------------------------------
\* The trips with no day in the residence timeline.
OutsideTrips ==
    {j \in 1..Len(businesstrips) : \A d \in DaysOfTrip(j) : ~Covered(d)}

\* C15: a calendar whose lists pass the checks of each list is constructed
\* even when a business trip has no day in the residence timeline, and such
\* a trip counts nowhere: whatever the window, taxcountry and include_trips,
\* a FindLocations call has the outcome (mapping or error) it has on the
\* calendar without that trip; when no trip has a day in the timeline, a
\* mapping returned holds the resident days of each country.
C15_OutsideTrip ==
    /\ (Constructed /\ OutsideTrips # {} /\ Acceptable(residence, businesstrips))
          => error = "none"
    /\ Found =>
          \A j \in OutsideTrips :
              ret = FindLocations(residence, Without(businesstrips, {j}),
                                  call.start, call.end, call.taxcountry,
                                  call.include_trips)
    /\ (FoundOk /\ OutsideTrips = 1..Len(businesstrips)) =>
          \A c \in AllCountries : Get(ret.val, c) = ResidentDays(c)

\* A trip to FR after the end of a US residence; the call counts trips and
\* returns the two US days.
C15_Witness ==
    /\ FoundOk /\ call.include_trips
    /\ OutsideTrips # {}
    /\ \A j \in OutsideTrips : businesstrips[j].country = "FR"
    /\ ret.val = [US |-> 2]

-----------------------------------------------------------------------------
(* csvtable.ReadMultitableCSV and TaxCalendar.ReadFromCSV                   *)

\* The text of a day of January of FirstYear in DATE_FORMAT, and strptime on
\* such texts: any other text is not a date.
DateString(d) == ToString(FirstYear) \o "-01-0" \o ToString(d)

strptime(s) ==
    IF \E d \in 1..9 : s = DateString(d)
    THEN [ok |-> TRUE, day |-> CHOOSE d \in 1..9 : s = DateString(d)]
    ELSE [ok |-> FALSE, day |-> 0]

\* Interval(*row): three arguments, the first two parsed as dates.
IntervalNew(row) ==
    IF Len(row) # 3 THEN [error |-> "TypeError", interval |-> Interval(0, 0, "")]
    ELSE LET start == strptime(row[1])
             end == strptime(row[2])
         IN  IF ~start.ok \/ ~end.ok
             THEN [error |-> "ValueError", interval |-> Interval(0, 0, "")]
             ELSE [error |-> "none",
                   interval |-> Interval(start.day, end.day, row[3])]

\* LocationTable(name, headings), and LocationTable.AddRow: CheckRow, then
\* the interval of the row is appended.
LocationTable(name, headings) == [name |-> name, headings |-> headings, data |-> <<>>]

AddRow(self, row) ==
    IF Len(row) # Len(self.headings) THEN [error |-> "ValueError", table |-> self]
    ELSE LET made == IntervalNew(row)
         IN  IF made.error # "none" THEN [error |-> made.error, table |-> self]
             ELSE [error |-> "none",
                   table |-> [self EXCEPT !.data = Append(@, made.interval)]]

\* d[k] = v on a dict.
DictSet(d, k, v) == [x \in DOMAIN d \cup {k} |-> IF x = k THEN v ELSE d[x]]

\* The rows of the files read: an empty line, the two heading rows, rows of
\* a table (one of the wrong length, one with a text that is no date).
HeadingRow(name) == <<name, "start", "end", "country">>

FileRows ==
    {<<>>, HeadingRow("RESIDENCE"), HeadingRow("BUSINESSTRIPS"),
     <<"", DateString(1), DateString(1), "JP">>,
     <<"", DateString(2), DateString(2), "FR">>,
     <<"", DateString(1), "JP">>,
     <<"", "Jan 1", DateString(1), "JP">>}

Files == Lists(FileRows, MaxRows)

InitCSV == InitWith(<<>>, <<>>, FirstYear)

\* TaxCalendar.ReadFromCSV(filename) up to the first row: the reader is
\* opened on the file and tables is empty.
CallReadFromCSV ==
    /\ phase = "new" /\ call = NoCall
    /\ \E file \in Files :
         /\ call' = [op |-> "ReadFromCSV", rows |-> file]
         /\ reader' = file
    /\ table' = Unbound
    /\ tables' = EmptyDict
    /\ phase' = "reading"
    /\ UNCHANGED <<residence, businesstrips, years, today, error, ret, prev>>

\* One turn of the loop over the reader.
ReadRow ==
    /\ phase = "reading" /\ reader # <<>>
    /\ reader' = Tail(reader)
    /\ LET row == Head(reader)
           name == row[1]
           data == Tail(row)
           added == AddRow(tables[table], data)
       IN  IF Len(row) = 0
           THEN UNCHANGED <<table, tables, phase, error>>
           ELSE IF name # ""
           THEN /\ table' = name
                /\ tables' = DictSet(tables, name, LocationTable(name, data))
                /\ UNCHANGED <<phase, error>>
           ELSE IF table = Unbound
           THEN /\ phase' = "failed" /\ error' = "UnboundLocalError"
                /\ UNCHANGED <<table, tables>>
           ELSE IF added.error # "none"
           THEN /\ phase' = "failed" /\ error' = added.error
                /\ UNCHANGED <<table, tables>>
           ELSE /\ tables' = DictSet(tables, table, added.table)
                /\ UNCHANGED <<table, phase, error>>
    /\ UNCHANGED <<residence, businesstrips, years, today, call, ret, prev>>

\* The reader is exhausted: ReadMultitableCSV returns tables, ReadFromCSV
\* checks the table names and constructs the calendar.
ReturnFromCSV ==
    /\ phase = "reading" /\ reader = <<>>
    /\ IF DOMAIN tables # {"BUSINESSTRIPS", "RESIDENCE"}
       THEN /\ phase' = "failed" /\ error' = "UnexpectedTables"
            /\ UNCHANGED <<residence, businesstrips, years>>
       ELSE LET r == TaxCalendarInit(tables["RESIDENCE"].data,
                                     tables["BUSINESSTRIPS"].data, today)
            IN  /\ residence' = r.residence
                /\ businesstrips' = r.businesstrips
                /\ years' = r.years
                /\ error' = r.error
                /\ phase' = IF r.error = "none" THEN "ready" ELSE "failed"
    /\ UNCHANGED <<today, call, ret, prev, csv>>

NextCSV == CallReadFromCSV \/ ReadRow \/ ReturnFromCSV

SpecCSV == InitCSV /\ [][NextCSV]_vars

-----------------------------------------------------------------------------
\* The rows read so far, and the kinds of row.
Consumed == Len(call.rows) - Len(reader)

IsHeading(row) == Len(row) > 0 /\ row[1] # ""

IsTableRow(row) == Len(row) > 0 /\ row[1] = ""

\* No section is current: no heading row has been read yet, or an empty
\* line has been read since the last heading row.
NoCurrentSection ==
    \/ ~\E i \in 1..Consumed : IsHeading(call.rows[i])
    \/ \E i \in 1..Consumed :
          /\ call.rows[i] = <<>>
          /\ \A k \in (i + 1)..Consumed : ~IsHeading(call.rows[k])

\* C16: ReadMultitableCSV takes the rows in file order as a section state
\* machine.  A row with a non-blank first field starts a new table under
\* that name, which becomes the current one; a row with a blank first field
\* read while a section is current is appended to the current table or ends
\* the read with an error; an empty line changes no table and ends the
\* current section: a row with a blank first field read after it, or before
\* any heading row, is appended to no table.
C16_SectionMachine ==
    [][(phase = "reading" /\ reader # <<>>) =>
          LET row == Head(reader)
          IN  /\ IsHeading(row) =>
                    /\ table' = row[1]
                    /\ DOMAIN tables' = DOMAIN tables \cup {row[1]}
                    /\ tables'[row[1]] = LocationTable(row[1], Tail(row))
                    /\ \A k \in DOMAIN tables \ {row[1]} : tables'[k] = tables[k]
              /\ (IsTableRow(row) /\ ~NoCurrentSection /\ phase' = "reading") =>
                    /\ table' = table
                    /\ DOMAIN tables' = DOMAIN tables
                    /\ Len(tables'[table].data) = Len(tables[table].data) + 1
                    /\ \A k \in DOMAIN tables \ {table} : tables'[k] = tables[k]
              /\ row = <<>> => tables' = tables
              /\ (IsTableRow(row) /\ NoCurrentSection) => tables' = tables]_vars

\* What the loop does with an empty line: it is skipped, and the table of
\* the last heading row stays the one that rows are appended to.
BlankRowSkipped ==
    [][(phase = "reading" /\ reader # <<>>) =>
          LET row == Head(reader)
          IN  /\ row = <<>> => UNCHANGED <<table, tables, phase, error>>
              /\ (IsTableRow(row) /\ phase' = "reading") =>
                    /\ table # Unbound
                    /\ Len(tables'[table].data) = Len(tables[table].data) + 1
              /\ (IsTableRow(row) /\ table = Unbound) =>
                    phase' = "failed" /\ error' = "UnboundLocalError"]_vars

\* A calendar read from a file in which a row follows an empty line after
\* the RESIDENCE table: the row has become a residence segment.
RowAfterSeparatorRead ==
    /\ phase \in {"ready", "failed"} /\ call.op = "ReadFromCSV"
    /\ call.rows = <<HeadingRow("BUSINESSTRIPS"), HeadingRow("RESIDENCE"), <<>>,
                     <<"", DateString(1), DateString(1), "JP">>>>
    /\ residence = <<Interval(1, 1, "JP")>>

-----------------------------------------------------------------------------
\* The years GetYears() returns, as main walks them.
YearsListed == {years[i] : i \in 1..Len(years)}

\* Some day of the year lies outside the residence timeline.
PartlyCovered(year) ==
    \/ residence[1].start > JanFirst(year)
    \/ residence[Len(residence)].end < DecLast(year)

\* C17: on a constructed calendar, FindLocationsForYear(year) returns a
\* mapping for every year that GetYears() lists, a first or last year that
\* the residence timeline covers only partly included.
C17_ListedYearsSucceed ==
    (FoundYear /\ call.year \in YearsListed) => ret.kind = "ok"

\* What the code does for a listed year: a year with a day outside the
\* timeline fails with the totals-mismatch error of FindLocations, and every
\* other listed year returns a mapping.
ListedYearOutcome ==
    (FoundYear /\ call.year \in YearsListed) =>
        /\ PartlyCovered(call.year) => ret.kind = "TotalsMismatch"
        /\ ~PartlyCovered(call.year) => ret.kind = "ok"

\* The residence timeline ends in the middle of a listed year and the call
\* for that year has failed.
ListedYearFailed ==
    /\ FoundYear /\ call.year \in YearsListed
    /\ residence[Len(residence)].end = MidYear(call.year)
    /\ ret.kind = "TotalsMismatch"

-----------------------------------------------------------------------------
(* stocktable.StockTable: the day counts of a report row                   *)

\* A label for a part of Japan, as "US_CA" is one for a part of the USA.
JPState == "JP_13"

\* StockTable.GetCountryDays for a row with the given grant date and date.
GetCountryDays(res, trips, grant_date, date, country, include_trips) ==
    LET locations == FindLocations(res, trips, grant_date, date, country,
                                   include_trips)
        counted == {c \in DOMAIN locations.val :
                       IsCountryOrStateOf(c, country).val}
    IN  IF locations.kind # "ok" THEN locations
        ELSE Returned(SumOver(locations.val, counted))

\* The day counts GenerateCountryReport works out for one row.
ReportDays(res, trips, grant_date, date, country) ==
    LET total_days == (date - grant_date) + 1
        resident_days == GetCountryDays(res, trips, grant_date, date, country, FALSE)
        country_days == GetCountryDays(res, trips, grant_date, date, country, TRUE)
    IN  IF resident_days.kind # "ok" THEN resident_days
        ELSE IF country_days.kind # "ok" THEN country_days
        ELSE Returned([total_days |-> total_days,
                       resident_days |-> resident_days.val,
                       country_days |-> country_days.val,
                       trip_days |-> resident_days.val - country_days.val,
                       foreign_days |-> total_days - country_days.val])

\* Ordered lists of proper intervals; trips go to a part of Japan or to
\* France.
InitReport ==
    \E res \in OrderedLists(ProperIntervals(Days, ResCountries), MaxIntervals) :
      \E trips \in OrderedLists(ProperIntervals(Days, {JPState, "FR"}),
                                MaxIntervals - Len(res)) :
        InitWith(res, trips, FirstYear)

\* One row of GenerateCountryReport("JP"): the grant date is not after the
\* date of the row.
CallReportDays ==
    /\ phase = "ready"
    /\ \E grant_date \in Days, date \in Days :
         /\ grant_date <= date
         /\ call' = [op |-> "GenerateCountryReport", grant_date |-> grant_date,
                     date |-> date, country |-> "JP"]
         /\ ret' = ReportDays(residence, businesstrips, grant_date, date, "JP")
    /\ phase' = "returned"
    /\ UNCHANGED <<residence, businesstrips, years, today, error, prev, csv>>

NextReport == New \/ CallReportDays \/ Return

SpecReport == InitReport /\ [][NextReport]_vars

-----------------------------------------------------------------------------
\* A report row has been worked out.
Reported ==
    phase = "returned" /\ call.op = "GenerateCountryReport" /\ ret.kind = "ok"

\* Every day from the grant date to the date of the row lies in the
\* residence timeline.
RowCovered == \A d \in call.grant_date .. call.date : Covered(d)

\* C18: for country "JP" and a row whose days from the grant date to its
\* date all lie in the residence timeline, the days counted for JP with
\* trips included are at most the days counted with trips excluded:
\* trip_days is not negative, and country_days is at most total_days.
C18_TripsOnlyReduce ==
    (Reported /\ RowCovered) =>
        /\ ret.val.country_days <= ret.val.resident_days
        /\ ret.val.trip_days >= 0
        /\ ret.val.country_days <= ret.val.total_days

\* What holds: when no trip goes to a part of Japan, trips only take days
\* away from the JP count.
TripsOnlyReduceWithoutStates ==
    (Reported /\ RowCovered
        /\ \A j \in 1..Len(businesstrips) : businesstrips[j].country # JPState) =>
        /\ ret.val.country_days <= ret.val.resident_days
        /\ ret.val.trip_days >= 0
        /\ ret.val.country_days <= ret.val.total_days

\* A trip from a US residence to a part of Japan has added a day to the JP
\* count: trip_days is negative.
StateTripCounted ==
    /\ Reported /\ RowCovered
    /\ \A k \in 1..Len(residence) : residence[k].country = "US"
    /\ ret.val.resident_days = 0
    /\ ret.val.country_days = 1
    /\ ret.val.trip_days = 0 - 1
====
